---- MODULE Spec2Model ----
\* Command layer of the Bloom filter client (src/src/bloom-filter.ts) together
\* with the transport it submits through and the remote filter service that
\* answers. The class holds no state of its own: the state is the commands in
\* flight, the remote filter, and the handle most recently settled.
EXTENDS Integers, Sequences, FiniteSets, TLC

VARIABLES
    nCalls,      \* public method invocations so far
    nSubmitted,  \* commands handed to the transport so far
    inflight,    \* submitted commands whose reply has not arrived, with their call
    filter,      \* the remote filter of this.name
    done         \* the call whose handle settled last (None before the first)

vars == <<nCalls, nSubmitted, inflight, filter, done>>

-----------------------------------------------------------------------------
\* Bounds of the model.

MaxCalls == 3      \* method invocations in one behaviour of Spec
MaxInFlight == 2   \* commands awaiting their reply at once
MaxItems == 2      \* longest items array passed to a batch method under Spec
MaxCmdItems == 3   \* longest items array passed to a batch method under SpecCmd

-----------------------------------------------------------------------------
\* JavaScript values as they cross the call boundary and the wire. Every value
\* is a record of one shape so that any two of them can be compared; a number
\* is the fraction n/d with d > 0.

Undefined == [k |-> "undefined", s |-> "", n |-> 0, d |-> 1]
Str(s) == [k |-> "string", s |-> s, n |-> 0, d |-> 1]
Num(n, d) == [k |-> "number", s |-> "", n |-> n, d |-> d]
Bool(b) == [k |-> "boolean", s |-> "", n |-> IF b THEN 1 ELSE 0, d |-> 1]

\* if (v): undefined, 0, "" and false are falsy.
Truthy(v) ==
    CASE v.k = "undefined" -> FALSE
      [] v.k = "string" -> v.s # ""
      [] OTHER -> v.n # 0

\* v <= 0 and v < 0 on a number.
LeqZero(v) == v.k = "number" /\ v.n <= 0
LtZero(v) == v.k = "number" /\ v.n < 0

\* A default parameter value applies exactly when the argument is undefined.
Default(v, dflt) == IF v = Undefined THEN dflt ELSE v

\* this.name
name == Str("bf")

\* InsertOptions; an omitted option is undefined.
Options(errorRate, capacity, expansionRate, upsert) ==
    [errorRate |-> errorRate, capacity |-> capacity,
     expansionRate |-> expansionRate, upsert |-> upsert]

NoOptions == Options(Undefined, Undefined, Undefined, Undefined)

-----------------------------------------------------------------------------
\* The command each method builds.

\* reserveCmd with the threshold of insert: only a negative rate is non-scaling.
reserveCmdLt(errorRate, capacity, expansionRate) ==
    LET rate == Default(expansionRate, Num(2, 1)) IN
    IF LtZero(rate)
    THEN <<Str("BF.RESERVE"), name, errorRate, capacity, Str("NONSCALING")>>
    ELSE <<Str("BF.RESERVE"), name, errorRate, capacity, Str("EXPANSION"), rate>>

reserveCmd(errorRate, capacity, expansionRate) ==
    LET rate == Default(expansionRate, Num(2, 1)) IN
    IF LeqZero(rate)
    THEN <<Str("BF.RESERVE"), name, errorRate, capacity, Str("NONSCALING")>>
    ELSE <<Str("BF.RESERVE"), name, errorRate, capacity, Str("EXPANSION"), rate>>

addCmd(item) == <<Str("BF.ADD"), name, item>>

\* maddCmd with the items spread last to first.
maddCmdReversed(items) ==
    <<Str("BF.MADD"), name>> \o [i \in 1..Len(items) |-> items[Len(items) + 1 - i]]

maddCmd(items) == <<Str("BF.MADD"), name>> \o items

\* existsCmd with the keyword of add.
existsCmdAdd(item) == <<Str("BF.ADD"), name, item>>

existsCmd(item) == <<Str("BF.EXISTS"), name, item>>

\* mexistsCmd passing the first item alone.
mexistsCmdFirst(items) ==
    <<Str("BF.MEXISTS"), name>> \o SubSeq(items, 1, IF items = <<>> THEN 0 ELSE 1)

mexistsCmd(items) == <<Str("BF.MEXISTS"), name>> \o items

infoCmd == <<Str("BF.INFO"), name>>

\* insertCmd testing errorRate and capacity against undefined instead of for
\* truthiness: a zero is emitted.
insertCmdDefined(items, options) ==
    LET upsert == Default(options.upsert, Bool(TRUE))
        c0 == <<Str("BF.INSERT"), name>>
        c1 == IF options.errorRate # Undefined
              THEN c0 \o <<Str("ERROR"), options.errorRate>> ELSE c0
        c2 == IF options.capacity # Undefined
              THEN c1 \o <<Str("CAPACITY"), options.capacity>> ELSE c1
        c3 == IF Truthy(options.expansionRate)
              THEN IF LtZero(options.expansionRate)
                   THEN c2 \o <<Str("NONSCALING")>>
                   ELSE c2 \o <<Str("EXPANSION"), options.expansionRate>>
              ELSE c2
        c4 == IF ~Truthy(upsert) THEN c3 \o <<Str("NOCREATE")>> ELSE c3
    IN  c4 \o <<Str("ITEMS")>> \o items

\* insertCmd with the scaling rule of reserve: any given rate <= 0 is non-scaling.
insertCmdLeq(items, options) ==
    LET upsert == Default(options.upsert, Bool(TRUE))
        c0 == <<Str("BF.INSERT"), name>>
        c1 == IF Truthy(options.errorRate)
              THEN c0 \o <<Str("ERROR"), options.errorRate>> ELSE c0
        c2 == IF Truthy(options.capacity)
              THEN c1 \o <<Str("CAPACITY"), options.capacity>> ELSE c1
        c3 == IF options.expansionRate # Undefined
              THEN IF LeqZero(options.expansionRate)
                   THEN c2 \o <<Str("NONSCALING")>>
                   ELSE c2 \o <<Str("EXPANSION"), options.expansionRate>>
              ELSE c2
        c4 == IF ~Truthy(upsert) THEN c3 \o <<Str("NOCREATE")>> ELSE c3
    IN  c4 \o <<Str("ITEMS")>> \o items

\* insertCmd that never appends NOCREATE.
insertCmdCreates(items, options) ==
    LET c0 == <<Str("BF.INSERT"), name>>
        c1 == IF Truthy(options.errorRate)
              THEN c0 \o <<Str("ERROR"), options.errorRate>> ELSE c0
        c2 == IF Truthy(options.capacity)
              THEN c1 \o <<Str("CAPACITY"), options.capacity>> ELSE c1
        c3 == IF Truthy(options.expansionRate)
              THEN IF LtZero(options.expansionRate)
                   THEN c2 \o <<Str("NONSCALING")>>
                   ELSE c2 \o <<Str("EXPANSION"), options.expansionRate>>
              ELSE c2
    IN  c3 \o <<Str("ITEMS")>> \o items

insertCmd(items, options) ==
    LET upsert == Default(options.upsert, Bool(TRUE))
        c0 == <<Str("BF.INSERT"), name>>
        c1 == IF Truthy(options.errorRate)
              THEN c0 \o <<Str("ERROR"), options.errorRate>> ELSE c0
        c2 == IF Truthy(options.capacity)
              THEN c1 \o <<Str("CAPACITY"), options.capacity>> ELSE c1
        c3 == IF Truthy(options.expansionRate)
              THEN IF LtZero(options.expansionRate)
                   THEN c2 \o <<Str("NONSCALING")>>
                   ELSE c2 \o <<Str("EXPANSION"), options.expansionRate>>
              ELSE c2
        c4 == IF ~Truthy(upsert) THEN c3 \o <<Str("NOCREATE")>> ELSE c3
    IN  c4 \o <<Str("ITEMS")>> \o items

-----------------------------------------------------------------------------
\* The transport: client.call(...args) and client.callOne(args) each submit one
\* ordered argument sequence and return the handle of its reply.

Call(method, items, options, cmd) ==
    [method |-> method, items |-> items, options |-> options, cmd |-> cmd]

None == Call("none", <<>>, NoOptions, <<>>)

\* Room, within the bounds, for one more invocation that submits n commands.
Room(n) == nCalls < MaxCalls /\ Len(inflight) + n <= MaxInFlight

\* One invocation of a public method that hands cmds, in order, to the transport.
Invoke(method, items, options, cmds) ==
    /\ nCalls' = nCalls + 1
    /\ nSubmitted' = nSubmitted + Len(cmds)
    /\ inflight' = inflight \o [i \in 1..Len(cmds) |-> Call(method, items, options, cmds[i])]
    /\ UNCHANGED <<filter, done>>

\* Return with a handler that turns a rejection into an empty success.
ReturnCaught(method, promise) ==
    IF promise.state = "rejected"
    THEN [state |-> "resolved",
          with |-> [kind |-> "ok", error |-> "", shape |-> "none", value |-> <<>>]]
    ELSE promise

\* Each method returns the transport's handle itself, with no handler attached.
Return(method, promise) == promise

-----------------------------------------------------------------------------
\* The remote service, as the client perceives it: one filter per name, which
\* is NonExistent, Reserved or Populated. Its code is not part of the
\* repository; it is modelled as the specification describes it (sections 4.2
\* and 7), with exact membership: the false positives of the real structure
\* are not modelled, and a command against a NonExistent filter creates it
\* only if it is a RESERVE or an INSERT without NOCREATE.

NoFilter ==
    [state |-> "NonExistent", errorRate |-> Undefined, capacity |-> Undefined,
     expansion |-> Undefined, members |-> {}]

Ok(shape, value) == [kind |-> "ok", error |-> "", shape |-> shape, value |-> value]
Err(error) == [kind |-> "error", error |-> error, shape |-> "none", value |-> <<>>]
NoReply == [kind |-> "none", error |-> "", shape |-> "none", value |-> <<>>]

Answer(reply, f) == [reply |-> reply, filter |-> f]

\* 1 for an item that was not a member before the command, 0 otherwise.
Flags(f, items) ==
    [i \in 1..Len(items) |-> IF items[i] \in f.members THEN Num(0, 1) ELSE Num(1, 1)]

Range(seq) == {seq[i] : i \in 1..Len(seq)}

Added(f, items) ==
    [f EXCEPT !.state = "Populated", !.members = f.members \cup Range(items)]

ValidRate(v) == v.k = "number" /\ 0 < v.n /\ v.n < v.d
ValidCapacity(v) == v.k = "number" /\ v.d = 1 /\ v.n > 0

\* The value that follows keyword kw among the option tokens, if any.
OptArg(opts, kw) ==
    IF \E i \in 1..(Len(opts) - 1) : opts[i] = Str(kw)
    THEN opts[(CHOOSE i \in 1..(Len(opts) - 1) : opts[i] = Str(kw)) + 1]
    ELSE Undefined

HasFlag(opts, kw) == \E i \in 1..Len(opts) : opts[i] = Str(kw)

ServeReserve(f, cmd) ==
    IF Len(cmd) < 5 \/ ~ValidRate(cmd[3]) \/ ~ValidCapacity(cmd[4])
    THEN Answer(Err("InvalidArgument"), f)
    ELSE IF f.state # "NonExistent"
    THEN Answer(Err("FilterAlreadyExists"), f)
    ELSE Answer(Ok("ack", <<Str("OK")>>),
                [state |-> "Reserved", errorRate |-> cmd[3], capacity |-> cmd[4],
                 expansion |-> IF cmd[5] = Str("NONSCALING") THEN cmd[5] ELSE cmd[6],
                 members |-> {}])

ServeAdd(f, cmd) ==
    IF Len(cmd) # 3 THEN Answer(Err("InvalidArgument"), f)
    ELSE IF f.state = "NonExistent" THEN Answer(Err("FilterNotFound"), f)
    ELSE Answer(Ok("integer", Flags(f, <<cmd[3]>>)), Added(f, <<cmd[3]>>))

ServeMAdd(f, cmd) ==
    LET items == SubSeq(cmd, 3, Len(cmd)) IN
    IF items = <<>> THEN Answer(Err("InvalidArgument"), f)
    ELSE IF f.state = "NonExistent" THEN Answer(Err("FilterNotFound"), f)
    ELSE Answer(Ok("integers", Flags(f, items)), Added(f, items))

ServeExists(f, cmd) ==
    IF Len(cmd) # 3 THEN Answer(Err("InvalidArgument"), f)
    ELSE IF f.state = "NonExistent" THEN Answer(Err("FilterNotFound"), f)
    ELSE Answer(Ok("integer", <<IF cmd[3] \in f.members THEN Num(1, 1) ELSE Num(0, 1)>>), f)

ServeMExists(f, cmd) ==
    LET items == SubSeq(cmd, 3, Len(cmd)) IN
    IF items = <<>> THEN Answer(Err("InvalidArgument"), f)
    ELSE IF f.state = "NonExistent" THEN Answer(Err("FilterNotFound"), f)
    ELSE Answer(Ok("integers",
                   [i \in 1..Len(items) |->
                       IF items[i] \in f.members THEN Num(1, 1) ELSE Num(0, 1)]), f)

ServeInfo(f, cmd) ==
    IF Len(cmd) # 2 THEN Answer(Err("InvalidArgument"), f)
    ELSE IF f.state = "NonExistent" THEN Answer(Err("FilterNotFound"), f)
    ELSE Answer(Ok("strings", <<Str("Capacity"), f.capacity,
                               Str("Expansion rate"), f.expansion>>), f)

ServeInsert(f, cmd) ==
    IF ~HasFlag(cmd, "ITEMS") THEN Answer(Err("InvalidArgument"), f)
    ELSE
    LET p == CHOOSE i \in 1..Len(cmd) :
                 cmd[i] = Str("ITEMS") /\ \A j \in 1..(i - 1) : cmd[j] # Str("ITEMS")
        opts == SubSeq(cmd, 3, p - 1)
        items == SubSeq(cmd, p + 1, Len(cmd))
        rate == OptArg(opts, "ERROR")
        cap == OptArg(opts, "CAPACITY")
        created == [state |-> "Reserved", errorRate |-> rate, capacity |-> cap,
                    expansion |-> IF HasFlag(opts, "NONSCALING")
                                  THEN Str("NONSCALING") ELSE OptArg(opts, "EXPANSION"),
                    members |-> {}]
        g == IF f.state = "NonExistent" THEN created ELSE f
    IN  IF \/ items = <<>>
           \/ rate # Undefined /\ ~ValidRate(rate)
           \/ cap # Undefined /\ ~ValidCapacity(cap)
           \/ HasFlag(opts, "NONSCALING") /\ HasFlag(opts, "EXPANSION")
        THEN Answer(Err("InvalidArgument"), f)
        ELSE IF f.state = "NonExistent" /\ HasFlag(opts, "NOCREATE")
        THEN Answer(Err("FilterNotFound"), f)
        ELSE Answer(Ok("integers", Flags(g, items)), Added(g, items))

Serve(f, cmd) ==
    CASE cmd[1] = Str("BF.RESERVE") -> ServeReserve(f, cmd)
      [] cmd[1] = Str("BF.ADD") -> ServeAdd(f, cmd)
      [] cmd[1] = Str("BF.MADD") -> ServeMAdd(f, cmd)
      [] cmd[1] = Str("BF.EXISTS") -> ServeExists(f, cmd)
      [] cmd[1] = Str("BF.MEXISTS") -> ServeMExists(f, cmd)
      [] cmd[1] = Str("BF.INFO") -> ServeInfo(f, cmd)
      [] cmd[1] = Str("BF.INSERT") -> ServeInsert(f, cmd)
      [] OTHER -> Answer(Err("InvalidArgument"), f)

\* The handle client.call returns: resolved with a success value, rejected
\* with an error.
Promise(reply) ==
    [state |-> IF reply.kind = "ok" THEN "resolved" ELSE "rejected", with |-> reply]

Pending == [state |-> "pending", with |-> NoReply]

Settled(call, reply, pre) ==
    [call |-> call, reply |-> reply, handle |-> Return(call.method, Promise(reply)),
     pre |-> pre]

Remove(seq, i) == SubSeq(seq, 1, i - 1) \o SubSeq(seq, i + 1, Len(seq))

\* The service receives the i-th command in flight and its reply settles the handle.
Reply(i) ==
    LET call == inflight[i]
        ans == Serve(filter, call.cmd)
    IN  /\ filter' = ans.filter
        /\ done' = Settled(call, ans.reply, filter)
        /\ inflight' = Remove(inflight, i)
        /\ UNCHANGED <<nCalls, nSubmitted>>

\* A growing command reaches a filter that cannot scale and is full.
Mutates(cmd) == cmd[1] \in {Str("BF.ADD"), Str("BF.MADD"), Str("BF.INSERT")}

Full(i) ==
    LET call == inflight[i] IN
    /\ filter.expansion = Str("NONSCALING")
    /\ Mutates(call.cmd)
    /\ done' = Settled(call, Err("CapacityExceeded"), filter)
    /\ inflight' = Remove(inflight, i)
    /\ UNCHANGED <<nCalls, nSubmitted, filter>>

\* The connection fails before the command reaches the service.
Fail(i) ==
    LET call == inflight[i] IN
    /\ done' = Settled(call, Err("TransportFailure"), filter)
    /\ inflight' = Remove(inflight, i)
    /\ UNCHANGED <<nCalls, nSubmitted, filter>>

-----------------------------------------------------------------------------
\* The public methods.

reserve(errorRate, capacity, expansionRate) ==
    /\ Room(1)
    /\ Invoke("reserve", <<>>, Options(errorRate, capacity, expansionRate, Undefined),
              <<reserveCmd(errorRate, capacity, expansionRate)>>)

add(item) ==
    /\ Room(1)
    /\ Invoke("add", <<item>>, NoOptions, <<addCmd(item)>>)

\* madd submitting one ADD per item.
maddPerItem(items) ==
    /\ Room(Len(items))
    /\ Invoke("madd", items, NoOptions, [i \in 1..Len(items) |-> addCmd(items[i])])

madd(items) ==
    /\ Room(1)
    /\ Invoke("madd", items, NoOptions, <<maddCmd(items)>>)

exists(item) ==
    /\ Room(1)
    /\ Invoke("exists", <<item>>, NoOptions, <<existsCmd(item)>>)

mexists(items) ==
    /\ Room(1)
    /\ Invoke("mexists", items, NoOptions, <<mexistsCmd(items)>>)

info ==
    /\ Room(1)
    /\ Invoke("info", <<>>, NoOptions, <<infoCmd>>)

insert(items, options) ==
    /\ Room(1)
    /\ Invoke("insert", items, options, <<insertCmd(items, options)>>)

-----------------------------------------------------------------------------
\* The client beside its transport and service: any interleaving of up to
\* MaxCalls invocations and of the replies to them.

Batches(S, n) == UNION {[1..m -> S] : m \in 0..n}

Items == {Str("a")}
ErrorRates == {Num(1, 100)}
Capacities == {Num(100, 1)}
ExpansionRates == {Undefined, Num(0, 1)}
InsertOptions == {NoOptions, Options(Undefined, Undefined, Undefined, Bool(FALSE))}

Init ==
    /\ nCalls = 0
    /\ nSubmitted = 0
    /\ inflight = <<>>
    /\ filter = NoFilter
    /\ done = [call |-> None, reply |-> NoReply, handle |-> Pending, pre |-> NoFilter]

Next ==
    \/ \E e \in ErrorRates, c \in Capacities, x \in ExpansionRates : reserve(e, c, x)
    \/ \E item \in Items : add(item)
    \/ \E items \in Batches(Items, MaxItems) : madd(items)
    \/ \E item \in Items : exists(item)
    \/ \E items \in Batches(Items, MaxItems) : mexists(items)
    \/ info
    \/ \E items \in Batches(Items, MaxItems), o \in InsertOptions : insert(items, o)
    \/ \E i \in 1..Len(inflight) : Reply(i)
    \/ \E i \in 1..Len(inflight) : Full(i)
    \/ \E i \in 1..Len(inflight) : Fail(i)

Spec == Init /\ [][Next]_vars

-----------------------------------------------------------------------------
\* One invocation with arguments drawn from wider sets, against each state the
\* remote filter can be in, followed by its reply.

CmdItems == {Str("a"), Str("b"), Num(1, 1), Num(2, 1), Num(3, 1)}
CmdErrorRates == {Undefined, Num(0, 1), Num(1, 100)}
CmdCapacities == {Undefined, Num(0, 1), Num(100, 1)}
CmdExpansionRates == {Undefined, Num(-1, 1), Num(0, 1), Num(1, 1), Num(2, 1)}
CmdUpserts == {Undefined, Bool(TRUE), Bool(FALSE)}

Scaling == [NoFilter EXCEPT !.state = "Reserved", !.errorRate = Num(1, 100),
                            !.capacity = Num(100, 1), !.expansion = Num(2, 1)]

CmdFilters ==
    {NoFilter,
     Scaling,
     [Scaling EXCEPT !.expansion = Str("NONSCALING")],
     [Scaling EXCEPT !.state = "Populated", !.members = {Str("a")}],
     [Scaling EXCEPT !.state = "Populated", !.members = {Str("b"), Num(1, 1)}]}

InitCmd ==
    /\ nCalls = 0
    /\ nSubmitted = 0
    /\ inflight = <<>>
    /\ filter \in CmdFilters
    /\ done = [call |-> None, reply |-> NoReply, handle |-> Pending, pre |-> NoFilter]

First == nCalls = 0

NextCmd ==
    \/ First /\ \E e \in CmdErrorRates \ {Undefined}, c \in CmdCapacities \ {Undefined},
                   x \in CmdExpansionRates : reserve(e, c, x)
    \/ First /\ \E item \in CmdItems : add(item)
    \/ First /\ \E items \in Batches(CmdItems, MaxCmdItems) : madd(items)
    \/ First /\ \E item \in CmdItems : exists(item)
    \/ First /\ \E items \in Batches(CmdItems, MaxCmdItems) : mexists(items)
    \/ First /\ info
    \/ First /\ \E items \in Batches(CmdItems, MaxCmdItems),
                   e \in CmdErrorRates, c \in CmdCapacities,
                   x \in CmdExpansionRates, u \in CmdUpserts :
                    insert(items, Options(e, c, x, u))
    \/ \E i \in 1..Len(inflight) : Reply(i)
    \/ \E i \in 1..Len(inflight) : Full(i)
    \/ \E i \in 1..Len(inflight) : Fail(i)

SpecCmd == InitCmd /\ [][NextCmd]_vars

-----------------------------------------------------------------------------
\* Properties of the commands built.

\* The calls a state shows: those in flight and the one settled last.
Calls == Range(inflight) \cup ({done.call} \ {None})

CallsOf(method) == {c \in Calls : c.method = method}

Reserve(errorRate, capacity) == <<Str("BF.RESERVE"), name, errorRate, capacity>>

NonScaling == <<Str("NONSCALING")>>
Expansion(rate) == <<Str("EXPANSION"), rate>>

\* C1: reserve submits exactly one command; it is RESERVE name errorRate
\* capacity NONSCALING when expansionRate <= 0, RESERVE name errorRate capacity
\* EXPANSION expansionRate when expansionRate > 0, and EXPANSION 2 when
\* expansionRate is omitted; it holds exactly one of NONSCALING and EXPANSION.
C1_ReserveCommand ==
    \A c \in CallsOf("reserve") :
        LET o == c.options
            head == Reserve(o.errorRate, o.capacity)
        IN  /\ nSubmitted = 1
            /\ o.expansionRate = Undefined => c.cmd = head \o Expansion(Num(2, 1))
            /\ o.expansionRate # Undefined /\ o.expansionRate.n <= 0
                   => c.cmd = head \o NonScaling
            /\ o.expansionRate # Undefined /\ o.expansionRate.n > 0
                   => c.cmd = head \o Expansion(o.expansionRate)
            /\ HasFlag(c.cmd, "NONSCALING") # HasFlag(c.cmd, "EXPANSION")

\* A reserve with expansionRate = 0 went out as NONSCALING and was acknowledged.
C1_Witness ==
    /\ done.call.method = "reserve"
    /\ done.call.options.expansionRate = Num(0, 1)
    /\ done.call.cmd[5] = Str("NONSCALING")
    /\ done.reply.kind = "ok"

\* An option counts as set when it is given and not zero.
IsSet(v) == v # Undefined /\ v.n # 0

Clause(cond, tokens) == IF cond THEN tokens ELSE <<>>

\* C2: for a non-empty items list, insert's command is INSERT name, then
\* ERROR errorRate if errorRate is set, then CAPACITY capacity if capacity is
\* set, then NONSCALING (negative) or EXPANSION expansionRate if expansionRate
\* is set, then NOCREATE if upsert is false, then ITEMS and the items in call
\* order; the two examples of the specification come out token for token.
C2_InsertCommand ==
    \A c \in CallsOf("insert") :
        LET o == c.options IN
        c.items # <<>> =>
        /\ c.cmd = <<Str("BF.INSERT"), name>>
                   \o Clause(IsSet(o.errorRate), <<Str("ERROR"), o.errorRate>>)
                   \o Clause(IsSet(o.capacity), <<Str("CAPACITY"), o.capacity>>)
                   \o Clause(IsSet(o.expansionRate),
                             IF o.expansionRate.n < 0
                             THEN NonScaling ELSE Expansion(o.expansionRate))
                   \o Clause(o.upsert = Bool(FALSE), <<Str("NOCREATE")>>)
                   \o <<Str("ITEMS")>> \o c.items
        /\ o = Options(Num(1, 100), Num(100, 1), Num(-1, 1), Bool(FALSE))
              /\ c.items = <<Str("a"), Str("b")>>
              => c.cmd = <<Str("BF.INSERT"), name, Str("ERROR"), Num(1, 100),
                           Str("CAPACITY"), Num(100, 1), Str("NONSCALING"),
                           Str("NOCREATE"), Str("ITEMS"), Str("a"), Str("b")>>
        /\ o = NoOptions /\ c.items = <<Num(1, 1), Num(2, 1), Num(3, 1)>>
              => c.cmd = <<Str("BF.INSERT"), name, Str("ITEMS"),
                           Num(1, 1), Num(2, 1), Num(3, 1)>>

\* The insert of the specification's first example is in flight.
C2_Witness ==
    \E i \in 1..Len(inflight) :
        /\ inflight[i].method = "insert"
        /\ inflight[i].options = Options(Num(1, 100), Num(100, 1), Num(-1, 1), Bool(FALSE))
        /\ inflight[i].items = <<Str("a"), Str("b")>>
        /\ Len(inflight[i].cmd) = 11

\* The scaling clause a command carries.
ScalingClause(cmd) ==
    IF HasFlag(cmd, "NONSCALING") THEN NonScaling
    ELSE IF HasFlag(cmd, "EXPANSION") THEN Expansion(OptArg(cmd, "EXPANSION"))
    ELSE <<>>

\* C3: at expansionRate = 0 reserve emits NONSCALING while insert emits no
\* scaling clause, its command being the one built with expansionRate
\* omitted; at every other integer expansionRate reserve and insert carry the
\* same clause, NONSCALING when negative and EXPANSION with the value when
\* positive.
C3_ScalingThresholds ==
    \A c \in CallsOf("reserve") \cup CallsOf("insert") :
        LET x == c.options.expansionRate
            other == IF c.method = "reserve"
                     THEN insertCmd(<<Str("a")>>, Options(Undefined, Undefined, x, Undefined))
                     ELSE reserveCmd(Num(1, 100), Num(100, 1), x)
        IN  x # Undefined /\ x.d = 1 =>
            /\ x.n = 0 /\ c.method = "reserve" => ScalingClause(c.cmd) = NonScaling
            /\ x.n = 0 /\ c.method = "insert" =>
                  /\ ScalingClause(c.cmd) = <<>>
                  /\ c.cmd = insertCmd(c.items, [c.options EXCEPT !.expansionRate = Undefined])
            /\ x.n # 0 =>
                  /\ ScalingClause(c.cmd) = ScalingClause(other)
                  /\ ScalingClause(c.cmd) = IF x.n < 0 THEN NonScaling ELSE Expansion(x)

\* An insert with expansionRate = 0 went out with no scaling clause.
C3_Witness ==
    /\ done.call.method = "insert"
    /\ done.call.options.expansionRate = Num(0, 1)
    /\ ~HasFlag(done.call.cmd, "NONSCALING")
    /\ ~HasFlag(done.call.cmd, "EXPANSION")

\* C6: madd builds MADD name items[0] .. items[n-1] and mexists builds
\* MEXISTS name items[0] .. items[n-1], of length n + 2 with item i at
\* position 2 + i, repeats kept and order kept; add builds ADD name item,
\* exists builds EXISTS name item, and info builds INFO name.
C6_BatchCommands ==
    /\ \A c \in CallsOf("madd") \cup CallsOf("mexists") :
           c.items # <<>> =>
           /\ Len(c.cmd) = Len(c.items) + 2
           /\ c.cmd[1] = IF c.method = "madd" THEN Str("BF.MADD") ELSE Str("BF.MEXISTS")
           /\ c.cmd[2] = name
           /\ \A i \in 1..Len(c.items) : c.cmd[2 + i] = c.items[i]
    /\ \A c \in CallsOf("add") : c.cmd = <<Str("BF.ADD"), name, c.items[1]>>
    /\ \A c \in CallsOf("exists") : c.cmd = <<Str("BF.EXISTS"), name, c.items[1]>>
    /\ \A c \in CallsOf("info") : c.cmd = <<Str("BF.INFO"), name>>

\* A madd whose first and last items are one value and whose middle item is
\* another is in flight.
C6_Witness ==
    \E i \in 1..Len(inflight) :
        /\ inflight[i].method = "madd"
        /\ Len(inflight[i].items) = 3
        /\ inflight[i].items[1] = inflight[i].items[3]
        /\ inflight[i].items[1] # inflight[i].items[2]
        /\ Len(inflight[i].cmd) = 5

-----------------------------------------------------------------------------
\* Properties of sequences of calls.

Batch == {"madd", "mexists", "insert"}

\* C4: a batch operation called with an empty items sequence submits nothing:
\* no command of such a call is in flight or was answered.
C4_EmptyBatchNotSubmitted ==
    \A c \in Calls : c.method \in Batch => c.items # <<>>

\* C5: after k invocations the transport has received exactly k commands,
\* whatever the batch sizes and whatever the replies were.
C5_OneSubmissionPerCall ==
    /\ nSubmitted = nCalls
    /\ Len(inflight) <= nCalls
    /\ done.call # None => nCalls >= 1 + Len(inflight)

\* Two calls were made, the last answer was an error to a madd of two items,
\* and nothing is in flight any more.
C5_Witness ==
    /\ nCalls >= 2
    /\ inflight = <<>>
    /\ done.call.method = "madd"
    /\ Len(done.call.items) = 2
    /\ done.handle.state = "rejected"
    /\ nSubmitted = nCalls

\* C8: an insert with upsert = false that reaches a NonExistent filter carries
\* NOCREATE, is rejected (as FilterNotFound when the service answers a
\* non-empty batch) and leaves the filter NonExistent with no member; and the
\* filter leaves NonExistent only on a reserve or on an insert whose upsert is
\* not false.
C8_NoCreateGuard ==
    /\ /\ done.call.method = "insert"
       /\ done.call.options.upsert = Bool(FALSE)
       /\ done.pre.state = "NonExistent"
       => /\ HasFlag(done.call.cmd, "NOCREATE")
          /\ done.handle.state = "rejected"
          /\ done.call.items # <<>> /\ done.reply.error # "TransportFailure"
                => done.handle.with.error = "FilterNotFound"
          /\ filter = NoFilter
    /\ done.call # None /\ done.pre.state = "NonExistent" /\ filter.state # "NonExistent"
       => \/ done.call.method = "reserve"
          \/ done.call.method = "insert" /\ done.call.options.upsert # Bool(FALSE)

\* An insert with upsert = false was answered FilterNotFound by a NonExistent
\* filter.
C8_Witness ==
    /\ done.call.method = "insert"
    /\ done.call.options.upsert = Bool(FALSE)
    /\ done.pre.state = "NonExistent"
    /\ done.handle.state = "rejected"
    /\ done.handle.with.error = "FilterNotFound"
    /\ filter.state = "NonExistent"

\* C9: the answer to an exists or a mexists leaves the filter as it was:
\* existence, creation attributes and members.
C9_QueriesReadOnly ==
    done.call.method \in {"exists", "mexists"} => filter = done.pre

\* A mexists was answered by a Populated filter.
C9_Witness ==
    /\ done.call.method = "mexists"
    /\ done.call.items # <<>>
    /\ done.pre.state = "Populated"
    /\ done.handle.state = "resolved"
    /\ filter.members # {}

\* C10: the handle of a call is rejected with the error of the reply when the
\* reply is an error, and resolved with the value of the reply when it is a
\* success; it is never resolved after an error reply.
C10_ErrorsPropagate ==
    done.call # None =>
    /\ done.reply.kind = "error" =>
          done.handle.state = "rejected" /\ done.handle.with = done.reply
    /\ done.reply.kind = "ok" =>
          done.handle.state = "resolved" /\ done.handle.with = done.reply
    /\ done.handle.state = "resolved" => done.reply.kind = "ok"

\* A reserve of a filter that exists was rejected with FilterAlreadyExists.
C10_Witness ==
    /\ done.call.method = "reserve"
    /\ done.reply.kind = "error"
    /\ done.handle.state = "rejected"
    /\ done.handle.with.error = "FilterAlreadyExists"

====
